---------------------------- MODULE Spec2Model ----------------------------
(***************************************************************************)
(* The authoritative Tic-Tac-Toe server of LilaGame: the match handler     *)
(* (TTTMatchHandler: MatchInit, MatchJoinAttempt, MatchJoin, MatchLeave,   *)
(* MatchLoop/handleMove, MatchTerminate, checkWinner, updateLeaderboard)   *)
(* and the matchmaking queue (startMatchmakingRPC, stopMatchmakingRPC).    *)
(*                                                                         *)
(* The host runtime serialises the callbacks of one match, so every        *)
(* handler of the match is one atomic action.                              *)
(***************************************************************************)
EXTENDS Integers, Sequences, FiniteSets, TLC

(***************************************************************************)
(* Constants of main.go                                                    *)
(***************************************************************************)
GameModeClassic == "classic"
GameModeAdvanced == "advanced"
GameStateWaiting == "waiting"
GameStatePlaying == "playing"
GameStateFinished == "finished"
PlayerX == "X"
PlayerO == "O"
Empty == ""
OpcodeState == 2
OpcodeError == 3
OpcodeMatchFound == 4

(***************************************************************************)
(* The users that connect to the server.                                   *)
(***************************************************************************)
Users == {"u1", "u2", "u3"}

VARIABLES
    Mode,        \* TTTMatch.Mode
    Size,        \* TTTMatch.Size
    Board,       \* TTTMatch.Board : row -> col -> symbol
    Turn,        \* TTTMatch.Turn
    Winner,      \* TTTMatch.Winner
    State,       \* TTTMatch.State
    Players,     \* TTTMatch.Players : userID -> symbol
    MoveCount,   \* TTTMatch.MoveCount
    outbox,      \* what the last callback sent through the dispatcher
    joinResult,  \* what the last MatchJoinAttempt returned ("" before any)
    lbCalls,     \* number of updateLeaderboard invocations on this match
    reports,     \* userID -> the scores UpdateLeaderboard was called with
    statCalls,   \* userID -> the total_score changes UpdateUserStats was
                 \* called to apply
    terminated,  \* MatchTerminate has run: the match is gone
    arena,       \* the cells the clients of this match aim their moves at
    lbError,     \* the last updateLeaderboard logged an error: a call of
                 \* UpdateLeaderboard or UpdateUserStats failed
    lastMover,   \* the sender of the last move handleMove accepted
    lastCall,    \* the callback the host ran last on this match, and how
                 \* many entries of Players it deleted
    matchmakingQueue,  \* userID -> MatchmakingQueue entry
    queueMutex,        \* the user whose RPC holds the lock, or Unlocked
    rpc,               \* userID -> where that user's running RPC stands
    matches,           \* the matches nk.MatchCreate created, in order
    notifications,     \* the notifications nk.NotificationsSend delivered
    response,          \* userID -> what the user's last RPC returned
    issued             \* the number of RPCs issued so far

matchVars == <<Mode, Size, Board, Turn, Winner, State, Players, MoveCount>>
obsVars == <<outbox, joinResult, lbCalls, reports, statCalls, terminated,
            arena, lbError, lastMover, lastCall>>
mmVars == <<matchmakingQueue, queueMutex, rpc, matches, notifications,
            response, issued>>
vars == <<matchVars, obsVars, mmVars>>

(***************************************************************************)
(* MatchInit                                                               *)
(***************************************************************************)
SizeOf(mode) == IF mode = GameModeAdvanced THEN 5 ELSE 3

Idx(size) == 0 .. (size - 1)

EmptyBoard(size) == [i \in Idx(size) |-> [j \in Idx(size) |-> Empty]]

AllCells(size) == Idx(size) \X Idx(size)

\* The cells the clients of a match aim their moves at.  Clients that send
\* anything (any sender, any payload) stay inside two crossing lines of the
\* 3x3 board, or four cells of the 5x5 board; clients that play by the rules
\* use the whole 3x3 board, or two crossing lines (nine cells) of the 5x5
\* board, where a line of five can be completed or blocked.
RowCol(size) == {c \in AllCells(size) : c[1] = 0 \/ c[2] = 0}

Diagonals(size) ==
    {c \in AllCells(size) : c[1] = c[2] \/ c[1] + c[2] = size - 1}

Corners(size) == {0, size - 1} \X {0, size - 1}

Arenas(mode) ==
    IF mode = GameModeAdvanced
    THEN {Corners(SizeOf(mode))}
    ELSE {RowCol(SizeOf(mode)), Diagonals(SizeOf(mode))}

GameArenas(mode) ==
    IF mode = GameModeAdvanced
    THEN {RowCol(SizeOf(mode)), Diagonals(SizeOf(mode))}
    ELSE {AllCells(SizeOf(mode))}

MatchInit(mode) ==
    /\ Mode = mode
    /\ Size = SizeOf(mode)
    /\ Board = EmptyBoard(SizeOf(mode))
    /\ Turn = PlayerX
    /\ Winner = ""
    /\ State = GameStateWaiting
    /\ Players = <<>>
    /\ MoveCount = 0

Call(name, removed) == [name |-> name, removed |-> removed]

NoJoin == [attempted |-> FALSE, accepted |-> FALSE, reason |-> ""]

JoinReturn(reason) ==
    [attempted |-> TRUE, accepted |-> reason = "", reason |-> reason]

InitObserved ==
    /\ outbox = <<>>
    /\ joinResult = NoJoin
    /\ lbCalls = 0
    /\ reports = [u \in Users |-> <<>>]
    /\ statCalls = [u \in Users |-> <<>>]
    /\ terminated = FALSE
    /\ lbError = FALSE
    /\ lastMover = ""
    /\ lastCall = Call("MatchInit", 0)

\* matchmaking.go: the queue is an empty map, the mutex is free, no RPC runs.
Unlocked == "unlocked"

\* The locals of a running RPC: request.Mode, opponent, matchID, and the
\* exists of stopMatchmakingRPC.
Idle ==
    [pc |-> "idle", mode |-> "", opponent |-> "", matchID |-> 0,
     exists |-> FALSE]

NoResponse == [kind |-> "none", ticket |-> "", matchID |-> 0, mode |-> ""]

InitMatchmaking ==
    /\ matchmakingQueue = <<>>
    /\ queueMutex = Unlocked
    /\ rpc = [u \in Users |-> Idle]
    /\ matches = <<>>
    /\ notifications = {}
    /\ response = [u \in Users |-> NoResponse]
    /\ issued = 0

Init ==
    /\ \E mode \in {GameModeClassic, GameModeAdvanced} :
          /\ MatchInit(mode)
          /\ arena \in Arenas(mode)
    /\ InitObserved
    /\ InitMatchmaking

(***************************************************************************)
(* Go map operations on Players                                            *)
(***************************************************************************)
MapLen(m) == Cardinality(DOMAIN m)

\* (mutation: an existing key keeps its old value)
MapPut_KeepsOld(m, k, v) ==
    [x \in DOMAIN m \cup {k} |-> IF x \in DOMAIN m THEN m[x] ELSE v]

MapPut(m, k, v) == [x \in DOMAIN m \cup {k} |-> IF x = k THEN v ELSE m[x]]

\* (mutation: nothing is deleted)
MapDelete_Nothing(m, ks) == m

MapDelete(m, ks) == [x \in DOMAIN m \ ks |-> m[x]]

(***************************************************************************)
(* Dispatcher messages.  BroadcastMessage with nil presences reaches every *)
(* participant of the match: to = "all".                                   *)
(***************************************************************************)
\* (mutation: the broadcast state never carries the winner)
StateMsg_NoWinner(board, turn, winner, players) ==
    [opcode |-> OpcodeState, to |-> "all", board |-> board, turn |-> turn,
     winner |-> "", players |-> players]

StateMsg(board, turn, winner, players) ==
    [opcode |-> OpcodeState, to |-> "all", board |-> board, turn |-> turn,
     winner |-> winner, players |-> players]

ErrorMsg(message) == [opcode |-> OpcodeError, to |-> "all", msg |-> message]

MatchFoundMsg(u) == [opcode |-> OpcodeMatchFound, to |-> u]

sendError(message) == <<ErrorMsg(message)>>

(***************************************************************************)
(* MatchJoinAttempt                                                        *)
(***************************************************************************)
\* (mutation: the check of the finished phase is missing)
JoinRejection_NoFinishedCheck(players, state) ==
    IF MapLen(players) >= 2 THEN "Match is full" ELSE ""

\* (mutation: the finished phase is checked before the number of players)
JoinRejection_FinishedFirst(players, state) ==
    IF state = GameStateFinished THEN "Match is finished"
    ELSE IF MapLen(players) >= 2 THEN "Match is full"
    ELSE ""

\* (mutation: the match is full with three players)
JoinRejection_OffByOne(players, state) ==
    IF MapLen(players) > 2 THEN "Match is full"
    ELSE IF state = GameStateFinished THEN "Match is finished"
    ELSE ""

JoinRejection(players, state) ==
    IF MapLen(players) >= 2 THEN "Match is full"
    ELSE IF state = GameStateFinished THEN "Match is finished"
    ELSE ""

JoinSymbol(players) == IF MapLen(players) = 1 THEN PlayerO ELSE PlayerX

\* (mutation: the game starts with the first player)
JoinState_StartsWithOne(players, state) ==
    IF MapLen(players) >= 1 THEN GameStatePlaying ELSE state

\* "Start game if we have 2 players"
JoinState(players, state) ==
    IF MapLen(players) = 2 THEN GameStatePlaying ELSE state

MatchJoinAttempt(u) ==
    /\ ~terminated
    /\ lastCall' = Call("MatchJoinAttempt", 0)
    /\ LET reason == JoinRejection(Players, State) IN
       /\ joinResult' = JoinReturn(reason)
       /\ IF reason # ""
          THEN /\ outbox' = <<>>
               /\ UNCHANGED <<matchVars, lbCalls, reports, statCalls,
                              terminated, arena, lbError, lastMover>>
          ELSE LET joined == MapPut(Players, u, JoinSymbol(Players)) IN
               /\ Players' = joined
               /\ State' = JoinState(joined, State)
               \* MatchJoin follows an accepted attempt: match found to the
               \* joiner, then the state to everyone
               /\ outbox' = <<MatchFoundMsg(u),
                              StateMsg(Board, Turn, "", joined)>>
               /\ UNCHANGED <<Mode, Size, Board, Turn, Winner, MoveCount,
                              lbCalls, reports, statCalls, terminated, arena,
                              lbError, lastMover>>

(***************************************************************************)
(* MatchLeave                                                              *)
(***************************************************************************)
\* (mutation: a leave does not end a playing match)
LeaveState_StaysPlaying(state) == state

LeaveState(state) ==
    IF state = GameStatePlaying THEN GameStateFinished ELSE state

MatchLeave(presences) ==
    /\ ~terminated
    /\ Players' = MapDelete(Players, presences)
    /\ State' = LeaveState(State)
    /\ lastCall' = Call("MatchLeave", MapLen(Players) - MapLen(Players'))
    /\ outbox' = <<>>
    /\ joinResult' = NoJoin
    /\ UNCHANGED <<Mode, Size, Board, Turn, Winner, MoveCount,
                   lbCalls, reports, statCalls, terminated, arena, lbError,
                   lastMover>>

(***************************************************************************)
(* checkWinner: rows, then columns, then the main diagonal, then the       *)
(* anti-diagonal; the first complete line found decides.                   *)
(***************************************************************************)
RowWon(board, size, i) ==
    /\ board[i][0] # Empty
    /\ \A j \in 1 .. (size - 1) : board[i][j] = board[i][0]

\* (mutation: the columns are not scanned)
ColWon_Never(board, size, j) == FALSE

ColWon(board, size, j) ==
    /\ board[0][j] # Empty
    /\ \A i \in 1 .. (size - 1) : board[i][j] = board[0][j]

\* (mutation: two cells of the main diagonal are enough)
DiagWon_TwoCells(board, size) ==
    /\ board[0][0] # Empty
    /\ board[1][1] = board[0][0]

DiagWon(board, size) ==
    /\ board[0][0] # Empty
    /\ \A i \in 1 .. (size - 1) : board[i][i] = board[0][0]

\* (mutation: the anti-diagonal is read one column to the right)
AntiWon_OffByOne(board, size) ==
    /\ board[0][size - 1] # Empty
    /\ \A i \in 1 .. (size - 1) : board[i][size - i] = board[0][size - 1]

AntiWon(board, size) ==
    /\ board[0][size - 1] # Empty
    /\ \A i \in 1 .. (size - 1) : board[i][size - 1 - i] = board[0][size - 1]

Least(S) == CHOOSE x \in S : \A y \in S : x <= y

checkWinner(board, size) ==
    LET rows == {i \in Idx(size) : RowWon(board, size, i)}
        cols == {j \in Idx(size) : ColWon(board, size, j)}
    IN  IF rows # {} THEN board[Least(rows)][0]
        ELSE IF cols # {} THEN board[0][Least(cols)]
        ELSE IF DiagWon(board, size) THEN board[0][0]
        ELSE IF AntiWon(board, size) THEN board[0][size - 1]
        ELSE ""

(***************************************************************************)
(* updateLeaderboard                                                       *)
(***************************************************************************)
Score(winner, symbol) ==
    IF winner = symbol THEN 10
    ELSE IF winner = "" THEN 1
    ELSE 0 - 5

\* UpdateLeaderboard and UpdateUserStats return nil or an error, which
\* updateLeaderboard logs and drops.
CallOutcomes(called, before) == IF called THEN BOOLEAN ELSE {before}

updateLeaderboard(players, winner, reps) ==
    [u \in Users |->
        IF u \in DOMAIN players
        THEN Append(reps[u], Score(winner, players[u]))
        ELSE reps[u]]

\* The won, lost and drawn flags updateLeaderboard hands to UpdateUserStats.
Outcome(winner, symbol) ==
    IF winner = symbol THEN "won"
    ELSE IF winner = "" THEN "drawn"
    ELSE "lost"

\* (mutation: a lost game leaves total_score alone)
TotalScoreChange_LossIsFree(outcome) ==
    IF outcome = "won" THEN 10
    ELSE IF outcome = "lost" THEN 0
    ELSE IF outcome = "drawn" THEN 1
    ELSE 0

\* UpdateUserStats: what is added to stats["total_score"].
TotalScoreChange(outcome) ==
    IF outcome = "won" THEN 10
    ELSE IF outcome = "lost" THEN 0 - 5
    ELSE IF outcome = "drawn" THEN 1
    ELSE 0

updateUserStats(players, winner, calls) ==
    [u \in Users |->
        IF u \in DOMAIN players
        THEN Append(calls[u], TotalScoreChange(Outcome(winner, players[u])))
        ELSE calls[u]]

(***************************************************************************)
(* handleMove                                                              *)
(***************************************************************************)
\* A payload json.Unmarshal rejects (its row and col are never read).
BadData == [parses |-> FALSE, row |-> 0, col |-> 0]

MoveData(row, col) == [parses |-> TRUE, row |-> row, col |-> col]

InRange(data, size) ==
    ~(data.row < 0 \/ data.row >= size \/ data.col < 0 \/ data.col >= size)

\* (mutation: the turn is not checked)
MoveError_NoTurnCheck(sender, data) ==
    IF State # GameStatePlaying THEN "Game is not in playing state"
    ELSE IF ~data.parses THEN "Invalid move data"
    ELSE IF ~InRange(data, Size) THEN "Invalid move coordinates"
    ELSE IF sender \notin DOMAIN Players THEN "Player not in match"
    ELSE IF Board[data.row][data.col] # Empty THEN "Cell already occupied"
    ELSE ""

\* (mutation: the coordinates are checked after the sender and the turn)
MoveError_RangeAfterTurn(sender, data) ==
    IF State # GameStatePlaying THEN "Game is not in playing state"
    ELSE IF ~data.parses THEN "Invalid move data"
    ELSE IF sender \notin DOMAIN Players THEN "Player not in match"
    ELSE IF Players[sender] # Turn THEN "Not your turn"
    ELSE IF ~InRange(data, Size) THEN "Invalid move coordinates"
    ELSE IF Board[data.row][data.col] # Empty THEN "Cell already occupied"
    ELSE ""

\* (mutation: the target cell is not checked)
MoveError_NoOccupiedCheck(sender, data) ==
    IF State # GameStatePlaying THEN "Game is not in playing state"
    ELSE IF ~data.parses THEN "Invalid move data"
    ELSE IF ~InRange(data, Size) THEN "Invalid move coordinates"
    ELSE IF sender \notin DOMAIN Players THEN "Player not in match"
    ELSE IF Players[sender] # Turn THEN "Not your turn"
    ELSE ""

\* The checks of handleMove in the order of the code; "" when all pass.
MoveError(sender, data) ==
    IF State # GameStatePlaying THEN "Game is not in playing state"
    ELSE IF ~data.parses THEN "Invalid move data"
    ELSE IF ~InRange(data, Size) THEN "Invalid move coordinates"
    ELSE IF sender \notin DOMAIN Players THEN "Player not in match"
    ELSE IF Players[sender] # Turn THEN "Not your turn"
    ELSE IF Board[data.row][data.col] # Empty THEN "Cell already occupied"
    ELSE ""

\* (mutation: row and column are swapped)
Place_Transposed(board, row, col, symbol) ==
    [board EXCEPT ![col][row] = symbol]

Place(board, row, col, symbol) ==
    [board EXCEPT ![row][col] = symbol]

\* (mutation: the turn always goes to X)
SwitchTurn_AlwaysX(turn) == PlayerX

\* (mutation: the turn is not handed over)
SwitchTurn_Stays(turn) == turn

SwitchTurn(turn) == IF turn = PlayerX THEN PlayerO ELSE PlayerX

\* (mutation: a full board is not yet a draw)
IsDraw_Strict(moveCount, size) == moveCount > size * size

IsDraw(moveCount, size) == moveCount >= size * size

handleMove(sender, data) ==
    LET err == MoveError(sender, data) IN
    IF err # ""
    THEN /\ outbox' = sendError(err)
         /\ joinResult' = NoJoin
         /\ UNCHANGED <<matchVars, lbCalls, reports, statCalls,
                        terminated, arena, lbError, lastMover>>
    ELSE LET playerSymbol == Players[sender]
             board == Place(Board, data.row, data.col, playerSymbol)
             count == MoveCount + 1
             winner == checkWinner(board, Size)
             won == winner # ""
             draw == ~won /\ IsDraw(count, Size)
             turn == IF won \/ draw THEN Turn ELSE SwitchTurn(Turn)
         IN  /\ Board' = board
             /\ MoveCount' = count
             /\ Winner' = IF won THEN winner ELSE Winner
             /\ State' = IF won \/ draw THEN GameStateFinished ELSE State
             /\ Turn' = turn
             /\ lbCalls' = IF won \/ draw THEN lbCalls + 1 ELSE lbCalls
             /\ reports' = IF won \/ draw
                           THEN updateLeaderboard(Players, Winner', reports)
                           ELSE reports
             /\ statCalls' = IF won \/ draw
                             THEN updateUserStats(Players, Winner', statCalls)
                             ELSE statCalls
             /\ lbError' \in CallOutcomes(won \/ draw, lbError)
             /\ outbox' = <<StateMsg(board, turn, Winner', Players)>>
             /\ joinResult' = NoJoin
             /\ lastMover' = sender
             /\ UNCHANGED <<Mode, Size, Players, terminated, arena>>

Outside(size) == {<<0 - 1, 0>>, <<size, 0>>, <<0, 0 - 1>>, <<0, size>>}

MoveInputs ==
    {BadData} \cup
    {MoveData(c[1], c[2]) : c \in arena \cup Outside(Size)}

\* MatchLoop hands every OpcodeMove message of the tick to handleMove.
MatchLoop(sender, data) ==
    /\ ~terminated
    /\ lastCall' = Call("MatchLoop", 0)
    /\ handleMove(sender, data)

(***************************************************************************)
(* MatchTerminate                                                          *)
(***************************************************************************)
\* (mutation: every finished match is reported at termination)
TerminateReports_AnyFinished(state, winner) ==
    state = GameStateFinished

TerminateReports(state, winner) ==
    state = GameStateFinished /\ winner # ""

MatchTerminate ==
    /\ ~terminated
    /\ terminated' = TRUE
    /\ lastCall' = Call("MatchTerminate", 0)
    /\ outbox' = <<>>
    /\ IF TerminateReports(State, Winner)
       THEN /\ lbCalls' = lbCalls + 1
            /\ reports' = updateLeaderboard(Players, Winner, reports)
            /\ statCalls' = updateUserStats(Players, Winner, statCalls)
            /\ lbError' \in CallOutcomes(TRUE, lbError)
       ELSE UNCHANGED <<lbCalls, reports, statCalls, lbError>>
    /\ joinResult' = NoJoin
    /\ UNCHANGED <<matchVars, arena, lastMover>>

(***************************************************************************)
(* The match among clients that send anything: any callback, from any      *)
(* user, with any payload, in any order, until the host terminates it.     *)
(***************************************************************************)
Next ==
    \/ \E u \in Users : MatchJoinAttempt(u) /\ UNCHANGED mmVars
    \/ \E ps \in SUBSET Users \ {{}} : MatchLeave(ps) /\ UNCHANGED mmVars
    \/ \E u \in Users : \E d \in MoveInputs :
          MatchLoop(u, d) /\ UNCHANGED mmVars
    \/ MatchTerminate /\ UNCHANGED mmVars

Spec == Init /\ [][Next]_vars

(***************************************************************************)
(* The match among clients that play by the rules (the frontend offers a   *)
(* move only to the player to move, on an empty cell of a playing match):  *)
(* the two paired players join once, play, may leave, and the host may     *)
(* terminate the match at any time.                                        *)
(***************************************************************************)
Paired == {"u1", "u2"}

GameInit ==
    /\ \E mode \in {GameModeClassic, GameModeAdvanced} :
          /\ MatchInit(mode)
          /\ arena \in GameArenas(mode)
    /\ InitObserved
    /\ InitMatchmaking

GameJoin == \E u \in Paired \ DOMAIN Players : MatchJoinAttempt(u)

GameMove ==
    \E u \in DOMAIN Players : \E c \in arena :
        /\ State = GameStatePlaying
        /\ Players[u] = Turn
        /\ Board[c[1]][c[2]] = Empty
        /\ MatchLoop(u, MoveData(c[1], c[2]))

GameLeave == \E u \in DOMAIN Players : MatchLeave({u})

GameNext ==
    \/ GameJoin /\ UNCHANGED mmVars
    \/ GameMove /\ UNCHANGED mmVars
    \/ GameLeave /\ UNCHANGED mmVars
    \/ MatchTerminate /\ UNCHANGED mmVars

GameSpec == GameInit /\ [][GameNext]_vars

(***************************************************************************)
(* Matchmaking.  Every RPC runs in its own goroutine; a user runs one RPC  *)
(* at a time.  The steps of an RPC are the places where another goroutine  *)
(* can run in between: before the lock, each map operation, each call of   *)
(* the host (nk.MatchCreate, nk.NotificationsSend), the deferred unlock.   *)
(***************************************************************************)
\* At most this many RPCs are issued in one run.
MaxRpcs == 3

\* What a client puts in the "mode" field of the payload.
RequestedModes == {GameModeClassic, GameModeAdvanced, "blitz"}

\* Validate game mode: anything else defaults to classic.
ValidMode(mode) ==
    IF mode # GameModeClassic /\ mode # GameModeAdvanced
    THEN GameModeClassic
    ELSE mode

ErrorResponse(message) ==
    [kind |-> "error", ticket |-> message, matchID |-> 0, mode |-> ""]

\* ticket_<userID>_<unix time>: not a match id
TicketResponse(u, mode) ==
    [kind |-> "ticket", ticket |-> u, matchID |-> 0, mode |-> mode]

\* the match id travels in the Ticket field
MatchResponse(id, mode) ==
    [kind |-> "match", ticket |-> "", matchID |-> id, mode |-> mode]

StopResponse == [kind |-> "success", ticket |-> "", matchID |-> 0, mode |-> ""]

QueueEntry(u, mode, timestamp) ==
    [UserID |-> u, Mode |-> mode, Timestamp |-> timestamp]

\* time.Now(): the queue only ever compares enqueue times, so the clock is
\* the number of RPCs issued so far.
Now == issued

\* queueMutex.Lock() returns once no other goroutine holds the mutex.
CanLock(holder) == holder = Unlocked

\* The entries the scan of startMatchmakingRPC may stop at: same mode, another
\* user.  Go iterates a map in an unspecified order, so it is any of them.
Compatible(queue, u, mode) ==
    {q \in DOMAIN queue : queue[q].Mode = mode /\ queue[q].UserID # u}

\* (mutation: the caller's identity is not checked)
StartBegin_NoAuthCheck(u, parses, mode, authed) ==
    /\ rpc[u].pc = "idle"
    /\ issued < MaxRpcs
    /\ issued' = issued + 1
    /\ IF ~parses
       THEN /\ response' = [response EXCEPT ![u] =
                               ErrorResponse("invalid request format")]
            /\ UNCHANGED rpc
       ELSE /\ rpc' = [rpc EXCEPT ![u] =
                          [Idle EXCEPT !.pc = "lock", !.mode = ValidMode(mode)]]
            /\ response' = [response EXCEPT ![u] = NoResponse]
    /\ UNCHANGED <<matchmakingQueue, queueMutex, matches, notifications>>

\* The RPC arrives: payload parsed, mode validated, caller identified.
StartBegin(u, parses, mode, authed) ==
    /\ rpc[u].pc = "idle"
    /\ issued < MaxRpcs
    /\ issued' = issued + 1
    /\ IF ~parses
       THEN /\ response' = [response EXCEPT ![u] =
                               ErrorResponse("invalid request format")]
            /\ UNCHANGED rpc
       ELSE IF ~authed
       THEN /\ response' = [response EXCEPT ![u] =
                               ErrorResponse("user not authenticated")]
            /\ UNCHANGED rpc
       ELSE /\ rpc' = [rpc EXCEPT ![u] =
                          [Idle EXCEPT !.pc = "lock", !.mode = ValidMode(mode)]]
            /\ response' = [response EXCEPT ![u] = NoResponse]
    /\ UNCHANGED <<matchmakingQueue, queueMutex, matches, notifications>>

StartLock(u) ==
    /\ rpc[u].pc = "lock"
    /\ CanLock(queueMutex)
    /\ queueMutex' = u
    /\ rpc' = [rpc EXCEPT ![u].pc = "scan"]
    /\ UNCHANGED <<matchmakingQueue, matches, notifications, response, issued>>

StartScan(u) ==
    /\ rpc[u].pc = "scan"
    /\ LET found == Compatible(matchmakingQueue, u, rpc[u].mode) IN
       IF found = {}
       THEN rpc' = [rpc EXCEPT ![u].pc = "enqueue"]
       ELSE \E q \in found :
               rpc' = [rpc EXCEPT ![u].pc = "delete", ![u].opponent = q]
    /\ UNCHANGED <<matchmakingQueue, queueMutex, matches, notifications,
                   response, issued>>

\* (mutation: the opponent stays in the queue)
StartDelete_KeepsOpponent(u) ==
    /\ rpc[u].pc = "delete"
    /\ rpc' = [rpc EXCEPT ![u].pc = "create"]
    /\ UNCHANGED <<matchmakingQueue, queueMutex, matches, notifications,
                   response, issued>>

\* delete(matchmakingQueue, opponent.UserID), then nk.MatchCreate is called
StartDelete(u) ==
    /\ rpc[u].pc = "delete"
    /\ matchmakingQueue' = MapDelete(matchmakingQueue, {rpc[u].opponent})
    /\ rpc' = [rpc EXCEPT ![u].pc = "create"]
    /\ UNCHANGED <<queueMutex, matches, notifications, response, issued>>

\* nk.MatchCreate returns: a new match id, or an error
StartCreate(u, created) ==
    /\ rpc[u].pc = "create"
    /\ IF created
       THEN LET id == Len(matches) + 1 IN
            /\ matches' = Append(matches,
                                 [id |-> id, mode |-> rpc[u].mode,
                                  finder |-> u, waiter |-> rpc[u].opponent])
            /\ rpc' = [rpc EXCEPT ![u].pc = "notify", ![u].matchID = id]
            /\ UNCHANGED <<matchmakingQueue, response>>
       ELSE \* "Add current player to queue as fallback"
            /\ matchmakingQueue' =
                  MapPut(matchmakingQueue, u, QueueEntry(u, rpc[u].mode, Now))
            /\ response' = [response EXCEPT ![u] =
                               TicketResponse(u, rpc[u].mode)]
            /\ rpc' = [rpc EXCEPT ![u].pc = "unlock"]
            /\ UNCHANGED matches
    /\ UNCHANGED <<queueMutex, notifications, issued>>

\* (mutation: a notification that cannot be delivered fails the RPC)
StartNotify_FailsRpc(u, delivered) ==
    /\ rpc[u].pc = "notify"
    /\ notifications' =
          IF delivered
          THEN notifications \cup
                  {[UserID |-> rpc[u].opponent, match_id |-> rpc[u].matchID,
                    mode |-> rpc[u].mode]}
          ELSE notifications
    /\ response' = [response EXCEPT ![u] =
                       IF delivered
                       THEN MatchResponse(rpc[u].matchID, rpc[u].mode)
                       ELSE ErrorResponse("failed to send notification")]
    /\ rpc' = [rpc EXCEPT ![u].pc = "unlock"]
    /\ UNCHANGED <<matchmakingQueue, queueMutex, matches, issued>>

\* nk.NotificationsSend returns: delivered, or an error that is only logged
StartNotify(u, delivered) ==
    /\ rpc[u].pc = "notify"
    /\ notifications' =
          IF delivered
          THEN notifications \cup
                  {[UserID |-> rpc[u].opponent, match_id |-> rpc[u].matchID,
                    mode |-> rpc[u].mode]}
          ELSE notifications
    /\ response' = [response EXCEPT ![u] =
                       MatchResponse(rpc[u].matchID, rpc[u].mode)]
    /\ rpc' = [rpc EXCEPT ![u].pc = "unlock"]
    /\ UNCHANGED <<matchmakingQueue, queueMutex, matches, issued>>

\* "No opponent found, add to queue"
StartEnqueue(u) ==
    /\ rpc[u].pc = "enqueue"
    /\ matchmakingQueue' =
          MapPut(matchmakingQueue, u, QueueEntry(u, rpc[u].mode, Now))
    /\ response' = [response EXCEPT ![u] = TicketResponse(u, rpc[u].mode)]
    /\ rpc' = [rpc EXCEPT ![u].pc = "unlock"]
    /\ UNCHANGED <<queueMutex, matches, notifications, issued>>

\* defer queueMutex.Unlock(), of either RPC
Unlock(u) ==
    /\ rpc[u].pc = "unlock"
    /\ queueMutex' = IF queueMutex = u THEN Unlocked ELSE queueMutex
    /\ rpc' = [rpc EXCEPT ![u] = Idle]
    /\ UNCHANGED <<matchmakingQueue, matches, notifications, response, issued>>

StopBegin(u, parses, authed) ==
    /\ rpc[u].pc = "idle"
    /\ issued < MaxRpcs
    /\ issued' = issued + 1
    /\ IF ~parses
       THEN /\ response' = [response EXCEPT ![u] =
                               ErrorResponse("invalid request format")]
            /\ UNCHANGED rpc
       ELSE IF ~authed
       THEN /\ response' = [response EXCEPT ![u] =
                               ErrorResponse("user not authenticated")]
            /\ UNCHANGED rpc
       ELSE /\ rpc' = [rpc EXCEPT ![u] = [Idle EXCEPT !.pc = "stoplock"]]
            /\ response' = [response EXCEPT ![u] = NoResponse]
    /\ UNCHANGED <<matchmakingQueue, queueMutex, matches, notifications>>

StopLock(u) ==
    /\ rpc[u].pc = "stoplock"
    /\ CanLock(queueMutex)
    /\ queueMutex' = u
    /\ rpc' = [rpc EXCEPT ![u].pc = "remove"]
    /\ UNCHANGED <<matchmakingQueue, matches, notifications, response, issued>>

\* (mutation: the stop empties the queue)
StopRemove_ClearsQueue(u) ==
    /\ rpc[u].pc = "remove"
    /\ matchmakingQueue' = <<>>
    /\ response' = [response EXCEPT ![u] = StopResponse]
    /\ rpc' = [rpc EXCEPT ![u].pc = "unlock",
                          ![u].exists = u \in DOMAIN matchmakingQueue]
    /\ UNCHANGED <<queueMutex, matches, notifications, issued>>

StopRemove(u) ==
    /\ rpc[u].pc = "remove"
    /\ matchmakingQueue' = MapDelete(matchmakingQueue, {u})
    /\ response' = [response EXCEPT ![u] = StopResponse]
    /\ rpc' = [rpc EXCEPT ![u].pc = "unlock",
                          ![u].exists = u \in DOMAIN matchmakingQueue]
    /\ UNCHANGED <<queueMutex, matches, notifications, issued>>

startMatchmakingRPC(u) ==
    \/ \E parses \in BOOLEAN : \E mode \in RequestedModes :
          \E authed \in BOOLEAN : StartBegin(u, parses, mode, authed)
    \/ StartLock(u)
    \/ StartScan(u)
    \/ StartDelete(u)
    \/ \E created \in BOOLEAN : StartCreate(u, created)
    \/ \E delivered \in BOOLEAN : StartNotify(u, delivered)
    \/ StartEnqueue(u)

stopMatchmakingRPC(u) ==
    \/ \E parses \in BOOLEAN : \E authed \in BOOLEAN :
          StopBegin(u, parses, authed)
    \/ StopLock(u)
    \/ StopRemove(u)

MMInit ==
    /\ MatchInit(GameModeClassic)
    /\ arena = AllCells(SizeOf(GameModeClassic))
    /\ InitObserved
    /\ InitMatchmaking

MMNext ==
    \/ \E u \in Users :
          startMatchmakingRPC(u) /\ UNCHANGED <<matchVars, obsVars>>
    \/ \E u \in Users :
          stopMatchmakingRPC(u) /\ UNCHANGED <<matchVars, obsVars>>
    \/ \E u \in Users : Unlock(u) /\ UNCHANGED <<matchVars, obsVars>>

MMSpec == MMInit /\ [][MMNext]_vars

\* The Go scheduler runs every runnable goroutine, and the host returns from
\* every call: an RPC that has started takes its next step unless it waits
\* for the mutex.  Whether a client issues another RPC is up to the client.
RpcStep(u) ==
    /\ \/ StartLock(u)
       \/ StartScan(u)
       \/ StartDelete(u)
       \/ \E created \in BOOLEAN : StartCreate(u, created)
       \/ \E delivered \in BOOLEAN : StartNotify(u, delivered)
       \/ StartEnqueue(u)
       \/ StopLock(u)
       \/ StopRemove(u)
       \/ Unlock(u)
    /\ UNCHANGED <<matchVars, obsVars>>

MMFairSpec ==
    /\ MMInit
    /\ [][MMNext]_vars
    /\ \A u \in Users : WF_vars(RpcStep(u))

(***************************************************************************)
(* The server as a whole.  The match handler and the matchmaking RPCs      *)
(* share no variable (nk.MatchCreate is the only link, and it hands over   *)
(* the mode alone), so a statement about each of them is checked on the    *)
(* runs in which the clients use one of them: the match is played while no *)
(* RPC has been issued, or RPCs are issued while the match is untouched.   *)
(***************************************************************************)
NoRpcYet == issued = 0

MatchUntouched == lastCall.name = "MatchInit"

ServerNext ==
    \/ NoRpcYet /\ GameJoin /\ UNCHANGED mmVars
    \/ NoRpcYet /\ GameMove /\ UNCHANGED mmVars
    \/ NoRpcYet /\ GameLeave /\ UNCHANGED mmVars
    \/ NoRpcYet /\ MatchTerminate /\ UNCHANGED mmVars
    \/ \E u \in Users :
          /\ MatchUntouched
          /\ startMatchmakingRPC(u)
          /\ UNCHANGED <<matchVars, obsVars>>
    \/ \E u \in Users :
          /\ MatchUntouched
          /\ stopMatchmakingRPC(u)
          /\ UNCHANGED <<matchVars, obsVars>>
    \/ \E u \in Users :
          /\ MatchUntouched
          /\ Unlock(u)
          /\ UNCHANGED <<matchVars, obsVars>>

ServerSpec == GameInit /\ [][ServerNext]_vars

(***************************************************************************)
(* Pairing, then the match it creates.  nk.MatchCreate("ttt_match",        *)
(* {"mode": request.Mode}) makes the host run MatchInit with that mode;    *)
(* the match below is the first one created.  The clients send well-formed *)
(* start requests, connect to the match once every RPC has returned, and   *)
(* ask for no other match once one exists.  The players keep to the rules  *)
(* of the game, but any user who knows the match id may ask to join.       *)
(***************************************************************************)
Quiet == \A u \in Users : rpc[u].pc = "idle"

\* MatchInit, run by the host for the match that nk.MatchCreate creates.
MatchCreated(mode) ==
    /\ Mode' = mode
    /\ Size' = SizeOf(mode)
    /\ Board' = EmptyBoard(SizeOf(mode))
    /\ Turn' = PlayerX
    /\ Winner' = ""
    /\ State' = GameStateWaiting
    /\ Players' = <<>>
    /\ MoveCount' = 0

PairingBegin(u) ==
    /\ matches = <<>>
    /\ \E mode \in {GameModeClassic, GameModeAdvanced} :
          StartBegin(u, TRUE, mode, TRUE)
    /\ UNCHANGED <<matchVars, obsVars>>

PairingStep(u) ==
    /\ \/ StartLock(u)
       \/ StartScan(u)
       \/ StartDelete(u)
       \/ StartCreate(u, FALSE)
       \/ \E delivered \in BOOLEAN : StartNotify(u, delivered)
       \/ StartEnqueue(u)
       \/ Unlock(u)
    /\ UNCHANGED <<matchVars, obsVars>>

PairingCreate(u) ==
    /\ StartCreate(u, TRUE)
    /\ IF matches = <<>>
       THEN /\ MatchCreated(rpc[u].mode)
            /\ arena' = Corners(SizeOf(rpc[u].mode))
            /\ UNCHANGED <<outbox, joinResult, lbCalls, reports, statCalls,
                           terminated, lbError, lastMover, lastCall>>
       ELSE UNCHANGED <<matchVars, obsVars>>

AnyJoin == \E u \in Users \ DOMAIN Players : MatchJoinAttempt(u)

PairingNext ==
    \/ \E u \in Users : PairingBegin(u)
    \/ \E u \in Users : PairingStep(u)
    \/ \E u \in Users : PairingCreate(u)
    \/ Quiet /\ matches # <<>> /\ AnyJoin /\ UNCHANGED mmVars
    \/ Quiet /\ matches # <<>> /\ GameMove /\ UNCHANGED mmVars

PairingSpec == MMInit /\ [][PairingNext]_vars

(***************************************************************************)
(* A classic match that nobody leaves and the host does not terminate: any *)
(* user may ask to join at any time, and the player to move keeps sending  *)
(* moves on empty cells of the whole board, so a move that can be made is  *)
(* made.                                                                   *)
(***************************************************************************)
PlayNext ==
    \/ \E u \in Users : MatchJoinAttempt(u) /\ UNCHANGED mmVars
    \/ GameMove /\ UNCHANGED mmVars

PlayFairSpec ==
    /\ MMInit
    /\ [][PlayNext]_vars
    /\ WF_vars(GameMove /\ UNCHANGED mmVars)

(***************************************************************************)
(* Properties.  What a step did is read from the two states of the step;   *)
(* what the clients asked for is read from the callback that made it.      *)
(***************************************************************************)
ErrorSent(message) == outbox = <<ErrorMsg(message)>>

ErrorSentNext(message) == outbox' = <<ErrorMsg(message)>>

AnyErrorSentNext == Len(outbox') = 1 /\ outbox'[1].opcode = OpcodeError

StateSent == Len(outbox) = 1 /\ outbox[1].opcode = OpcodeState

OutOfRange(d) == d.row \notin Idx(Size) \/ d.col \notin Idx(Size)

OnBoard(d) == d.parses /\ ~OutOfRange(d)

Other(symbol) == IF symbol = PlayerX THEN PlayerO ELSE PlayerX

MoveAccepted == MoveCount' = MoveCount + 1

\* The lines of a board: every row, every column and the two full diagonals.
Lines(size) ==
    {{<<i, j>> : j \in Idx(size)} : i \in Idx(size)} \cup
    {{<<i, j>> : i \in Idx(size)} : j \in Idx(size)} \cup
    {{<<i, i>> : i \in Idx(size)}, {<<i, size - 1 - i>> : i \in Idx(size)}}

HasLine(board, size, symbol) ==
    \E line \in Lines(size) : \A c \in line : board[c[1]][c[2]] = symbol

\* C1: over any sequence of moves, leaves and the termination of one match,
\* updateLeaderboard is invoked at most once.
C1_ReportedAtMostOnce == lbCalls <= 1

\* C2: two startMatchmakingRPC calls for the same mode from two distinct
\* players, the only RPCs issued, on a queue that was empty, in any
\* interleaving: once both have returned there is exactly one match, created
\* by one of them (the finder, who got its id) with the other as the waiter
\* it removed from the queue.
C2_BothStarted(p, q) ==
    /\ p # q
    /\ issued = 2
    /\ \A u \in Users : rpc[u].pc = "idle"
    /\ response[p].kind \in {"ticket", "match"}
    /\ response[q].kind \in {"ticket", "match"}
    /\ response[p].mode = response[q].mode

C2_FinderAndWaiter(finder, waiter) ==
    /\ Len(matches) = 1
    /\ matches[1].finder = finder
    /\ matches[1].waiter = waiter
    /\ matches[1].mode = response[finder].mode
    /\ response[finder].kind = "match"
    /\ response[finder].matchID = matches[1].id
    /\ response[waiter].kind = "ticket"
    /\ waiter \notin DOMAIN matchmakingQueue

C2_TwoStartsMakeExactlyOneMatch ==
    \A p, q \in Users :
        C2_BothStarted(p, q) =>
            C2_FinderAndWaiter(p, q) \/ C2_FinderAndWaiter(q, p)

\* What the lock does guarantee in that case: never two matches, and no
\* match only when nk.MatchCreate failed, which leaves the finder queued in
\* the place of the waiter.
C2_NeverTwoMatches ==
    \A p, q \in Users :
        C2_BothStarted(p, q) =>
            \/ C2_FinderAndWaiter(p, q)
            \/ C2_FinderAndWaiter(q, p)
            \/ /\ matches = <<>>
               /\ Cardinality(DOMAIN matchmakingQueue \cap {p, q}) = 1

\* C3: a move that handleMove rejects (phase not Playing, coordinates out of
\* range, sender not in the match, not the sender's turn, target cell
\* occupied) is answered with an error and leaves board, turn, moveCount,
\* phase and winner as they were.
C3_MustReject(u, d) ==
    \/ State # GameStatePlaying
    \/ ~OnBoard(d)
    \/ u \notin DOMAIN Players
    \/ Players[u] # Turn
    \/ Board[d.row][d.col] # Empty

C3_RejectedMoveMutatesNothing ==
    [][IF AnyErrorSentNext
       THEN UNCHANGED <<Board, Turn, MoveCount, State, Winner>>
       ELSE \A u \in Users : \A d \in MoveInputs :
               ~(C3_MustReject(u, d) /\ MatchLoop(u, d))]_vars

C3_Witness ==
    /\ ErrorSent("Not your turn")
    /\ State = GameStatePlaying
    /\ MoveCount > 0

\* C4: an accepted move (coordinates in range, target cell empty, sender's
\* symbol equal to turn, phase Playing) changes exactly the target cell, to
\* the mover's symbol, and increases moveCount by exactly 1.
C4_Acceptable(u, d) ==
    /\ State = GameStatePlaying
    /\ OnBoard(d)
    /\ u \in DOMAIN Players
    /\ Players[u] = Turn
    /\ Board[d.row][d.col] = Empty

C4_AcceptedMoveWritesOneCell ==
    [][\A u \in Users : \A d \in MoveInputs :
          (C4_Acceptable(u, d) /\ MatchLoop(u, d)) =>
              /\ Board'[d.row][d.col] = Players[u]
              /\ \A c \in AllCells(Size) :
                   c # <<d.row, d.col>> => Board'[c[1]][c[2]] = Board[c[1]][c[2]]
              /\ MoveCount' = MoveCount + 1]_vars

C4_Witness ==
    /\ StateSent
    /\ MoveCount = 2
    /\ Cardinality({c \in AllCells(Size) : Board[c[1]][c[2]] # Empty}) = 2

\* C5: an accepted move flips turn to the other symbol unless the match
\* finished on that move (win or draw), in which case turn is unchanged.
C5_TurnFlipsUnlessFinished ==
    [][MoveAccepted =>
          Turn' = IF State' = GameStateFinished THEN Turn ELSE Other(Turn)]_vars

C5_Witness ==
    /\ State = GameStateFinished
    /\ MoveCount = Size * Size
    /\ Winner = ""
    /\ Turn = PlayerX

\* C6 as claimed: every move whose row or col lies outside [0, Size) fails
\* with "Invalid move coordinates" and leaves the board unchanged.
C6_OutOfRangeAlwaysInvalidCoordinates ==
    [][\A u \in Users : \A d \in MoveInputs :
          (d.parses /\ OutOfRange(d) /\ MatchLoop(u, d)) =>
              /\ ErrorSentNext("Invalid move coordinates")
              /\ Board' = Board]_vars

\* C6 amended: a move whose row or col lies outside [0, Size) fails with
\* "Invalid move coordinates" while the match is Playing and with "Game is
\* not in playing state" in any other phase; the board is unchanged.
C6_OutOfRangeRejected ==
    [][\A u \in Users : \A d \in MoveInputs :
          (d.parses /\ OutOfRange(d) /\ MatchLoop(u, d)) =>
              /\ IF State = GameStatePlaying
                 THEN ErrorSentNext("Invalid move coordinates")
                 ELSE ErrorSentNext("Game is not in playing state")
              /\ Board' = Board]_vars

C6_Witness ==
    /\ ErrorSent("Invalid move coordinates")
    /\ State = GameStatePlaying
    /\ MoveCount > 0

\* C7 as claimed: a move by a player whose symbol is not turn fails with
\* "Not your turn".
C7_WrongTurnAlwaysNotYourTurn ==
    [][\A u \in Users : \A d \in MoveInputs :
          (u \in DOMAIN Players /\ Players[u] # Turn /\ MatchLoop(u, d)) =>
              ErrorSentNext("Not your turn")]_vars

\* C7 amended: a move on the board of a Playing match by a player whose
\* symbol is not turn fails with "Not your turn" (an earlier check of
\* handleMove answers otherwise: phase, payload, coordinates); and the board
\* only ever changes through a move by the player whose symbol equals turn
\* while the phase is Playing.
C7_OnlyThePlayerToMoveChangesTheBoard ==
    [][/\ \A u \in Users : \A d \in MoveInputs :
             (/\ State = GameStatePlaying /\ OnBoard(d)
              /\ u \in DOMAIN Players /\ Players[u] # Turn
              /\ MatchLoop(u, d)) =>
                 ErrorSentNext("Not your turn") /\ Board' = Board
       /\ Board' # Board =>
             /\ State = GameStatePlaying
             /\ \E u \in DOMAIN Players : \E d \in MoveInputs :
                   Players[u] = Turn /\ MatchLoop(u, d)]_vars

C7_Witness ==
    /\ ErrorSent("Not your turn")
    /\ State = GameStatePlaying
    /\ Turn = PlayerO

\* C8: a move that targets an occupied cell never alters the board, in any
\* phase and whoever's turn it is.
C8_OccupiedCellNeverAltersBoard ==
    [][\A u \in Users : \A d \in MoveInputs :
          (OnBoard(d) /\ Board[d.row][d.col] # Empty /\ MatchLoop(u, d)) =>
              Board' = Board]_vars

C8_Witness ==
    /\ ErrorSent("Cell already occupied")
    /\ MoveCount > 0

\* C9: Finished is terminal: from a Finished match every move fails with
\* "Game is not in playing state", every join attempt is rejected, and
\* board, turn, winner, moveCount and phase never change again.
C9_FinishedIsTerminal ==
    [][State = GameStateFinished =>
          /\ UNCHANGED <<Board, Turn, Winner, MoveCount, State>>
          /\ \A u \in Users : \A d \in MoveInputs :
                MatchLoop(u, d) => ErrorSentNext("Game is not in playing state")
          /\ \A u \in Users :
                MatchJoinAttempt(u) => ~joinResult'.accepted]_vars

C9_Witness ==
    /\ State = GameStateFinished
    /\ ErrorSent("Game is not in playing state")
    /\ MapLen(Players) = 1

\* C10: an accepted move finishes the match with winner = the mover's symbol
\* exactly when, after the move, a row, a column or a full diagonal holds the
\* mover's symbol in all of its Size cells; otherwise winner stays empty.
C10_WinExactlyOnFullLine ==
    [][MoveAccepted =>
          IF HasLine(Board', Size, Turn)
          THEN State' = GameStateFinished /\ Winner' = Turn
          ELSE Winner' = ""]_vars

C10_Witness ==
    /\ Size = 5
    /\ State = GameStateFinished
    /\ Winner = PlayerX
    /\ \A i \in Idx(Size) : Board[i][Size - 1 - i] = PlayerX

\* C11: when an accepted move fills the last empty cell (MoveCount reaches
\* Size * Size) and completes no line, the match is Finished with no winner
\* and each of the two players is reported a draw (score 1) exactly once:
\* by that move, and never again, whatever follows (leaves, termination).
NoLine(board, size) ==
    ~HasLine(board, size, PlayerX) /\ ~HasLine(board, size, PlayerO)

DrawScore == Score("", PlayerX)

C11_DrawReportedOncePerPlayer ==
    /\ [][(MoveAccepted /\ MoveCount' = Size * Size /\ NoLine(Board', Size)) =>
            /\ State' = GameStateFinished
            /\ Winner' = ""
            /\ MapLen(Players) = 2
            /\ \A u \in DOMAIN Players :
                  reports'[u] = Append(reports[u], DrawScore)]_vars
    /\ [](MoveCount = Size * Size /\ NoLine(Board, Size) =>
            /\ State = GameStateFinished
            /\ Winner = ""
            /\ Cardinality({u \in Users : reports[u] = <<DrawScore>>}) = 2
            /\ Cardinality({u \in Users : reports[u] = <<>>}) =
                  Cardinality(Users) - 2)

C11_Witness ==
    /\ MoveCount = Size * Size
    /\ NoLine(Board, Size)
    /\ terminated
    /\ Players = <<>>
    /\ reports["u1"] = <<DrawScore>>
    /\ reports["u2"] = <<DrawScore>>

\* C12: a full board is always a finished game, by win or by draw:
\* MoveCount = Size * Size implies the phase Finished.
C12_FullBoardIsFinished ==
    MoveCount = Size * Size => State = GameStateFinished

C12_Witness ==
    /\ MoveCount = Size * Size
    /\ State = GameStateFinished
    /\ Winner = PlayerX
    /\ lastCall.name = "MatchLoop"

\* C13: a non-empty winner implies the phase Finished, and the winner is
\* only ever set by the accepted move that completes a line of that symbol:
\* never by a draw, a join, a leave or the termination.
C13_WinnerOnlyByCompletedLine ==
    /\ [](Winner # "" => State = GameStateFinished)
    /\ [][Winner' # Winner =>
            /\ Winner = ""
            /\ MoveAccepted
            /\ lastCall'.name = "MatchLoop"
            /\ Winner' = Turn
            /\ HasLine(Board', Size, Winner')
            /\ ~HasLine(Board, Size, Winner')]_vars

C13_Witness ==
    /\ Winner = PlayerO
    /\ State = GameStateFinished
    /\ lastCall.name = "MatchLeave"
    /\ MapLen(Players) = 1

\* C14: in every state whose phase is not Waiting, exactly one player holds
\* X and exactly one player holds O, after any sequence of MatchJoinAttempt
\* and MatchLeave calls, a user who joins again and a player who leaves
\* included.
Holders(symbol) == {u \in DOMAIN Players : Players[u] = symbol}

C14_OneXOneO ==
    State # GameStateWaiting =>
        /\ Cardinality(Holders(PlayerX)) = 1
        /\ Cardinality(Holders(PlayerO)) = 1

\* The playing match the second join of a user leads to: both players hold O
\* and it is the turn of X.
C14_BothHoldO ==
    /\ State = GameStatePlaying
    /\ Cardinality(Holders(PlayerO)) = 2
    /\ Turn = PlayerX

\* C15 as claimed: a join attempt is rejected with "Match is full" when two
\* players are admitted and with "Match is finished" when the phase is
\* Finished; players, phase, board and turn are unchanged in both cases.
C15_FullOrFinishedRejected ==
    [][\A u \in Users : MatchJoinAttempt(u) =>
          /\ MapLen(Players) >= 2 => joinResult' = JoinReturn("Match is full")
          /\ State = GameStateFinished =>
                joinResult' = JoinReturn("Match is finished")
          /\ (MapLen(Players) >= 2 \/ State = GameStateFinished) =>
                UNCHANGED <<Players, State, Board, Turn>>]_vars

\* C15 amended: a join attempt is rejected with "Match is full" when two
\* players are admitted, whatever the phase, and with "Match is finished"
\* when the phase is Finished and fewer than two players are admitted;
\* players, phase, board and turn are unchanged in both cases.
C15_FullBeforeFinished ==
    [][\A u \in Users : MatchJoinAttempt(u) =>
          /\ MapLen(Players) >= 2 => joinResult' = JoinReturn("Match is full")
          /\ (State = GameStateFinished /\ MapLen(Players) < 2) =>
                joinResult' = JoinReturn("Match is finished")
          /\ (MapLen(Players) >= 2 \/ State = GameStateFinished) =>
                UNCHANGED <<Players, State, Board, Turn>>]_vars

C15_Witness ==
    /\ joinResult = JoinReturn("Match is full")
    /\ State = GameStateFinished
    /\ Winner # ""
    /\ MapLen(Players) = 2

\* A match that finished without a win and without a full board: it can
\* only have been finished by MatchLeave.
Abandoned ==
    /\ State = GameStateFinished
    /\ Winner = ""
    /\ MoveCount < Size * Size

Leavers == SUBSET Users \ {{}}

\* C16: MatchLeave of a player from a Playing match makes the phase Finished
\* with no winner, and from then on the match stays so and every move sent
\* to it fails with "Game is not in playing state".
C16_LeaveEndsPlayingMatch ==
    [][/\ \A ps \in Leavers :
             (/\ State = GameStatePlaying
              /\ ps \cap DOMAIN Players # {}
              /\ MatchLeave(ps)) => Abandoned'
       /\ Abandoned =>
             /\ Abandoned'
             /\ Board' = Board
             /\ \A u \in Users : \A d \in MoveInputs :
                   MatchLoop(u, d) =>
                       ErrorSentNext("Game is not in playing state")]_vars

C16_Witness ==
    /\ Abandoned
    /\ MoveCount > 0
    /\ MapLen(Players) = 1
    /\ lastCall.name = "MatchLoop"
    /\ ErrorSent("Game is not in playing state")

\* C17: removing a player from a Playing match reports the abandonment: by
\* the time the abandoned match has terminated, exactly one outcome has been
\* reported, to one player (the one who remained).
C17_AbandonmentReportedOnce ==
    (Abandoned /\ terminated) =>
        /\ Cardinality({u \in Users : Len(reports[u]) = 1}) = 1
        /\ Cardinality({u \in Users : Len(reports[u]) = 0}) =
              Cardinality(Users) - 1

\* C18: MatchLeave on a Waiting match frees the slot: the leavers are
\* removed, the phase stays Waiting, nothing else of the match changes, and
\* a join attempt that follows, by any user, is admitted.
C18_LeaveWhileWaitingFreesSlot ==
    [][/\ \A ps \in Leavers :
             (State = GameStateWaiting /\ MatchLeave(ps)) =>
                 /\ State' = GameStateWaiting
                 /\ DOMAIN Players' = DOMAIN Players \ ps
                 /\ \A u \in DOMAIN Players' : Players'[u] = Players[u]
                 /\ UNCHANGED <<Board, Turn, Winner, MoveCount>>
       /\ \A u \in Users :
             (/\ State = GameStateWaiting
              /\ lastCall.name = "MatchLeave"
              /\ MatchJoinAttempt(u)) =>
                 /\ joinResult' = JoinReturn("")
                 /\ u \in DOMAIN Players']_vars

C18_Witness ==
    /\ lastCall = Call("MatchLeave", 1)
    /\ State = GameStateWaiting
    /\ Players = <<>>
    /\ MoveCount = 0

\* C19: a MatchLeave for users none of whom is in the match (already
\* removed, or never present) changes no field of the match, in every phase.
C19_LeaveOfAbsentIsNoOp ==
    [][\A ps \in Leavers :
          (ps \cap DOMAIN Players = {} /\ MatchLeave(ps)) =>
              UNCHANGED <<Players, State, Board, Turn, Winner>>]_vars

\* C20: after any interleaving of startMatchmakingRPC and stopMatchmakingRPC
\* calls the queue holds at most one entry per player id, and a start by a
\* player who is already queued replaces that player's entry (same keys, the
\* new mode and enqueue time) instead of adding a second one.
EntriesOf(p) ==
    {k \in DOMAIN matchmakingQueue : matchmakingQueue[k].UserID = p}

C20_OneEntryPerPlayer ==
    /\ [](\A p \in Users : Cardinality(EntriesOf(p)) <= 1)
    /\ [][\A u \in Users :
            (u \in DOMAIN matchmakingQueue /\ StartEnqueue(u)) =>
                /\ DOMAIN matchmakingQueue' = DOMAIN matchmakingQueue
                /\ matchmakingQueue'[u] = QueueEntry(u, rpc[u].mode, Now)
                /\ matchmakingQueue'[u] # matchmakingQueue[u]
                /\ \A k \in DOMAIN matchmakingQueue \ {u} :
                      matchmakingQueue'[k] = matchmakingQueue[k]]_vars

\* A player who is queued for classic has started again, for advanced: the
\* RPC holds the lock, found nobody to pair with, and replaces the entry next.
C20_Witness ==
    \E u \in Users :
        /\ rpc[u].pc = "enqueue"
        /\ queueMutex = u
        /\ rpc[u].mode = GameModeAdvanced
        /\ u \in DOMAIN matchmakingQueue
        /\ matchmakingQueue[u].Mode = GameModeClassic

\* C21: startMatchmakingRPC pairs the caller if and only if the queue holds
\* an entry of another player for the same mode: then the waiter's entry is
\* removed, one match is created for that mode and its id is returned to the
\* caller; otherwise the caller is enqueued, a ticket is returned and no
\* match is created.
Waiters(u) ==
    {k \in DOMAIN matchmakingQueue :
        k # u /\ matchmakingQueue[k].Mode = rpc[u].mode}

StartReturned(u) ==
    rpc[u].pc = "unlock" /\ response[u].kind \in {"ticket", "match"}

ReturnedPaired(u) ==
    /\ response[u] = MatchResponse(rpc[u].matchID, rpc[u].mode)
    /\ rpc[u].matchID \in 1 .. Len(matches)
    /\ matches[rpc[u].matchID] =
          [id |-> rpc[u].matchID, mode |-> rpc[u].mode,
           finder |-> u, waiter |-> rpc[u].opponent]
    /\ rpc[u].opponent \notin DOMAIN matchmakingQueue

ReturnedWaiting(u) ==
    /\ response[u] = TicketResponse(u, rpc[u].mode)
    /\ rpc[u].matchID = 0
    /\ u \in DOMAIN matchmakingQueue
    /\ matchmakingQueue[u].Mode = rpc[u].mode

C21_PairsIffCompatibleWaiter ==
    \A u \in Users :
        /\ rpc[u].pc = "delete" => rpc[u].opponent \in Waiters(u)
        /\ rpc[u].pc = "enqueue" => Waiters(u) = {}
        /\ StartReturned(u) =>
              IF rpc[u].opponent # ""
              THEN ReturnedPaired(u)
              ELSE ReturnedWaiting(u)

\* C22: stopMatchmakingRPC removes the caller's entry if there is one and
\* touches no other player's entry; for a caller without an entry it returns
\* success and leaves the queue as it was.
C22_StopRemovesOnlyTheCaller ==
    [][\A u \in Users : StopRemove(u) =>
          /\ DOMAIN matchmakingQueue' = DOMAIN matchmakingQueue \ {u}
          /\ \A k \in DOMAIN matchmakingQueue' :
                matchmakingQueue'[k] = matchmakingQueue[k]
          /\ u \notin DOMAIN matchmakingQueue =>
                matchmakingQueue' = matchmakingQueue
          /\ response'[u] = StopResponse
          /\ matches' = matches]_vars

C22_Witness ==
    \E u \in Users :
        /\ rpc[u].pc = "unlock"
        /\ rpc[u].exists
        /\ response[u] = StopResponse
        /\ u \notin DOMAIN matchmakingQueue
        /\ matchmakingQueue # <<>>

\* C23 as claimed: startMatchmakingRPC called without an established caller
\* identity fails with the authentication error, creates no match and leaves
\* the queue unchanged.
C23_NoIdentityAlwaysAuthError ==
    [][\A u \in Users : \A parses \in BOOLEAN : \A mode \in RequestedModes :
          StartBegin(u, parses, mode, FALSE) =>
              /\ response'[u] = ErrorResponse("user not authenticated")
              /\ rpc'[u] = Idle
              /\ UNCHANGED <<matchmakingQueue, matches>>]_vars

\* C23 amended: startMatchmakingRPC called without an established caller
\* identity fails, with the authentication error when the payload parses
\* and with "invalid request format" when it does not (the payload is
\* parsed first); the RPC ends there: no match, the queue unchanged.
C23_NoIdentityFails ==
    [][\A u \in Users : \A parses \in BOOLEAN : \A mode \in RequestedModes :
          StartBegin(u, parses, mode, FALSE) =>
              /\ response'[u] =
                    IF parses THEN ErrorResponse("user not authenticated")
                              ELSE ErrorResponse("invalid request format")
              /\ rpc'[u] = Idle
              /\ UNCHANGED <<matchmakingQueue, matches>>]_vars

C23_Witness ==
    \E u \in Users :
        /\ response[u] = ErrorResponse("user not authenticated")
        /\ rpc[u] = Idle
        /\ matchmakingQueue # <<>>
        /\ u \notin DOMAIN matchmakingQueue
        /\ matches = <<>>

\* C24: whenever pairing has removed a waiting player from the queue, that
\* player eventually receives the id of the created match in a notification.
TakenOut(q) ==
    \E u \in Users : rpc[u].pc = "create" /\ rpc[u].opponent = q

Notified(q) == \E n \in notifications : n.UserID = q /\ n.match_id # 0

C24_RemovedWaiterEventuallyNotified ==
    \A q \in Users : TakenOut(q) ~> Notified(q)

\* C25: right after startMatchmakingRPC has paired a caller with a waiter,
\* neither of the two has an entry left in the queue, in any mode.
C25_PairedPlayersLeaveTheQueue ==
    \A u \in Users :
        (StartReturned(u) /\ response[u].kind = "match") =>
            /\ rpc[u].opponent \notin DOMAIN matchmakingQueue
            /\ u \notin DOMAIN matchmakingQueue

\* C26: queueMutex is not held while startMatchmakingRPC calls the host:
\* nk.MatchCreate and nk.NotificationsSend run outside the critical section.
InExternalCall(u) == rpc[u].pc \in {"create", "notify"}

C26_NoLockAcrossExternalCalls ==
    \A u \in Users : InExternalCall(u) => queueMutex # u

\* What the deferred unlock costs: while one RPC is inside nk.MatchCreate or
\* nk.NotificationsSend, an RPC of another player waits for the mutex.
C26_BlockedBehindExternalCall ==
    \E u, v \in Users :
        /\ InExternalCall(u)
        /\ queueMutex = u
        /\ rpc[v].pc \in {"lock", "stoplock"}

\* C27: the error that answers a rejected move goes to the client that sent
\* the move and to nobody else.
C27_ErrorOnlyToOffender ==
    [][\A u \in Users : \A d \in MoveInputs :
          (MoveError(u, d) # "" /\ MatchLoop(u, d)) =>
              \A i \in 1 .. Len(outbox') :
                  outbox'[i].opcode = OpcodeError => outbox'[i].to = u]_vars

\* C28: every accepted move, the finishing move included, is answered by
\* exactly one STATE message to all participants that carries the board,
\* the turn and the winner as they are after the move; a rejected move is
\* answered by an ERROR message and no STATE message.
C28_MoveAnsweredByStateOrError ==
    [][lastCall'.name = "MatchLoop" =>
          /\ Len(outbox') = 1
          /\ IF MoveAccepted
             THEN /\ outbox'[1].opcode = OpcodeState
                  /\ outbox'[1].to = "all"
                  /\ outbox'[1].board = Board'
                  /\ outbox'[1].turn = Turn'
                  /\ outbox'[1].winner = Winner'
                  /\ Board' # Board
             ELSE /\ outbox'[1].opcode = OpcodeError
                  /\ UNCHANGED <<Board, Turn, Winner>>]_vars

C28_Witness ==
    /\ StateSent
    /\ State = GameStateFinished
    /\ Winner = PlayerX
    /\ outbox[1].winner = PlayerX
    /\ outbox[1].board = Board
    /\ outbox[1].to = "all"

\* C29: a failure of an external collaborator never blocks or reverts the
\* transition that triggered it.  When UpdateLeaderboard or UpdateUserStats
\* fails on the finishing move, the move stands: the match is Finished with
\* the board and the winner of that move, the final state is broadcast, and
\* the match stays so.  When nk.NotificationsSend fails after pairing, the
\* match stays created and the finder still gets its id.
FinishingMoveFailedToReport ==
    /\ lastCall'.name = "MatchLoop"
    /\ lbCalls' = lbCalls + 1
    /\ lbError'

NotificationFailed(u) ==
    /\ rpc[u].pc = "notify"
    /\ rpc'[u].pc # "notify"
    /\ notifications' = notifications

C29_CollaboratorFailureBlocksNothing ==
    /\ [][FinishingMoveFailedToReport =>
            /\ MoveAccepted
            /\ Board' # Board
            /\ State' = GameStateFinished
            /\ Winner' = IF HasLine(Board', Size, Turn) THEN Turn ELSE ""
            /\ outbox' = <<StateMsg(Board', Turn', Winner', Players')>>]_vars
    /\ [][lbError => UNCHANGED <<Board, Winner, State>>]_vars
    /\ [][\A u \in Users : NotificationFailed(u) =>
            /\ response'[u] = MatchResponse(rpc[u].matchID, rpc[u].mode)
            /\ rpc[u].matchID = Len(matches)
            /\ matches' = matches
            /\ rpc'[u].pc = "unlock"]_vars

C29_Witness ==
    /\ lbError
    /\ State = GameStateFinished
    /\ Winner = ""
    /\ MoveCount = Size * Size
    /\ lastCall.name = "MatchLoop"
    /\ StateSent
    /\ outbox[1].board = Board

\* The case of C30, several compatible waiters of one mode, does not arise:
\* the queue holds at most one entry per mode (C37 below), so the scan of
\* startMatchmakingRPC has at most one candidate to pick from.

\* C31: the match goes from Waiting to Playing exactly when MatchJoinAttempt
\* admits the second player; Playing is entered from Waiting only, and at
\* that moment the board is empty, MoveCount is 0, Turn is X, and this
\* initial state is broadcast to all the participants.
SecondPlayerAdmitted ==
    /\ lastCall'.name = "MatchJoinAttempt"
    /\ joinResult'.accepted
    /\ MapLen(Players) = 1
    /\ MapLen(Players') = 2

Points(winner, symbol) ==
    IF symbol = winner THEN 10
    ELSE IF winner = "" THEN 1
    ELSE 0 - 5

ResultReported == lbCalls' = lbCalls + 1

FinishedByMove ==
    /\ lastCall'.name = "MatchLoop"
    /\ State = GameStatePlaying
    /\ State' = GameStateFinished

C32_OutcomeBySymbol ==
    /\ [][ResultReported =>
            \A u \in DOMAIN Players' :
                LET points == Points(Winner', Players'[u]) IN
                /\ reports'[u] = Append(reports[u], points)
                /\ statCalls'[u] = Append(statCalls[u], points)]_vars
    /\ [][FinishedByMove =>
            /\ ResultReported
            /\ MapLen(Players') = 2
            /\ Winner' # "" =>
                  /\ \E u \in DOMAIN Players' :
                        Points(Winner', Players'[u]) = 10
                  /\ \E u \in DOMAIN Players' :
                        Points(Winner', Players'[u]) = 0 - 5]_vars
    /\ [](\A u \in Users : statCalls[u] = reports[u])

C32_Witness ==
    /\ lastCall.name = "MatchLoop"
    /\ State = GameStateFinished
    /\ Winner = PlayerO
    /\ \E w, l \in DOMAIN Players :
          /\ Players[w] = PlayerO
          /\ Players[l] = PlayerX
          /\ reports[w] = <<10>>
          /\ statCalls[w] = <<10>>
          /\ reports[l] = <<0 - 5>>
          /\ statCalls[l] = <<0 - 5>>

\* C33: in every reachable state at most one symbol has a complete line (a
\* row, a column or a full diagonal), so the order in which checkWinner scans
\* the lines does not matter: whatever complete line there is, it belongs to
\* the symbol checkWinner returns, which is the recorded winner.
LinesOf(symbol) ==
    {line \in Lines(Size) : \A c \in line : Board[c[1]][c[2]] = symbol}

C33_AtMostOneSymbolHasALine ==
    /\ LinesOf(PlayerX) = {} \/ LinesOf(PlayerO) = {}
    /\ \A symbol \in {PlayerX, PlayerO} :
          LinesOf(symbol) # {} =>
              /\ checkWinner(Board, Size) = symbol
              /\ Winner = symbol

\* one move completes two lines at once
C33_Witness ==
    /\ Cardinality(LinesOf(PlayerX)) = 2
    /\ LinesOf(PlayerO) = {}
    /\ Winner = PlayerX
    /\ State = GameStateFinished

\* C34: the match created by pairing admits exactly the two paired players:
\* once the match that paired the finder P with the waiter Q is Playing, its
\* players are P and Q, and nobody else ever holds one of its two slots.
PairedPlayers == {matches[1].finder, matches[1].waiter}

C34_OnlyThePairedPlayers ==
    matches # <<>> =>
        /\ DOMAIN Players \subseteq PairedPlayers
        /\ State = GameStatePlaying => DOMAIN Players = PairedPlayers

\* A user who was not paired holds a slot of the playing match, and a paired
\* player is turned away.
C34_ThirdPlayerTookASlot ==
    /\ matches # <<>>
    /\ State = GameStatePlaying
    /\ DOMAIN Players # PairedPlayers
    /\ joinResult = JoinReturn("Match is full")

\* C35: in every reachable state a Playing match has exactly two players
\* admitted and a Waiting match has fewer than two.
C35_PhaseMatchesPlayerCount ==
    /\ State = GameStatePlaying => MapLen(Players) = 2
    /\ State = GameStateWaiting => MapLen(Players) < 2

\* a match in play, after a third user was turned away
C35_Witness ==
    /\ State = GameStatePlaying
    /\ MapLen(Players) = 2
    /\ lastCall.name = "MatchJoinAttempt"
    /\ joinResult = JoinReturn("Match is full")
    /\ MoveCount > 0

\* C36: when nk.MatchCreate fails during pairing no waiting player is dropped:
\* as startMatchmakingRPC returns, the opponent it had found still has its
\* queue entry, or has been notified.
CreateFailedFor(u) ==
    /\ rpc[u].pc = "unlock"
    /\ rpc[u].opponent # ""
    /\ rpc[u].matchID = 0

C36_CreateFailureKeepsTheWaiter ==
    \A u \in Users :
        CreateFailedFor(u) =>
            \/ rpc[u].opponent \in DOMAIN matchmakingQueue
            \/ \E n \in notifications : n.UserID = rpc[u].opponent

\* The waiter is gone for good: every RPC has returned, no match exists, the
\* waiter holds a ticket and is neither queued nor notified.
C36_WaiterDropped ==
    /\ Quiet
    /\ matches = <<>>
    /\ notifications = {}
    /\ \E q \in Users :
          /\ response[q].kind = "ticket"
          /\ q \notin DOMAIN matchmakingQueue

\* C37: after any interleaving of startMatchmakingRPC and stopMatchmakingRPC
\* calls, match creations that fail included, the queue holds at most one
\* entry per game mode, so the scan for a compatible waiter never has more
\* than one entry to stop at.
C37_AtMostOneWaiterPerMode ==
    /\ \A p, q \in DOMAIN matchmakingQueue :
          matchmakingQueue[p].Mode = matchmakingQueue[q].Mode => p = q
    /\ \A u \in Users :
          rpc[u].pc = "scan" =>
              Cardinality(Compatible(matchmakingQueue, u, rpc[u].mode)) <= 1

\* a caller has taken the place of the waiter it found, next to the waiter of
\* the other mode
C37_Witness ==
    \E u \in Users :
        /\ CreateFailedFor(u)
        /\ u \in DOMAIN matchmakingQueue
        /\ MapLen(matchmakingQueue) = 2

\* C38: in every reachable state of a match, MoveCount is the number of
\* non-empty cells of the board.
Occupied == {c \in AllCells(Size) : Board[c[1]][c[2]] # Empty}

C38_MoveCountIsOccupiedCells == MoveCount = Cardinality(Occupied)

\* a move on an occupied cell has just been refused
C38_Witness ==
    /\ ErrorSent("Cell already occupied")
    /\ MoveCount >= 3
    /\ MoveCount = Cardinality(Occupied)

\* C39: moves alternate, starting with X: in every reachable state the board
\* holds as many X as O or one X more, while the match is Playing the turn is
\* X exactly when MoveCount is even, and no player makes two accepted moves
\* in a row.
CellsOf(symbol) == {c \in AllCells(Size) : Board[c[1]][c[2]] = symbol}

C39_MovesAlternate ==
    /\ [](Cardinality(CellsOf(PlayerX)) - Cardinality(CellsOf(PlayerO))
            \in {0, 1})
    /\ [](State = GameStatePlaying =>
            (Turn = PlayerX <=> MoveCount % 2 = 0))
    /\ [][MoveAccepted =>
            /\ lastMover' # lastMover
            /\ Players[lastMover'] = Turn
            /\ \E c \in AllCells(Size) :
                  /\ Board[c[1]][c[2]] = Empty
                  /\ Board'[c[1]][c[2]] = Turn]_vars

\* X, O and X have moved, and X has just been refused a second move in a row
C39_Witness ==
    /\ State = GameStatePlaying
    /\ MoveCount = 3
    /\ Turn = PlayerO
    /\ lastMover \in DOMAIN Players
    /\ Players[lastMover] = PlayerX
    /\ ErrorSent("Not your turn")

\* C40: every match that reaches Playing can finish: in every Playing state
\* some admitted player holds the symbol whose turn it is, a match accepts at
\* most Size * Size moves, and when nobody leaves and the player to move
\* keeps moving on empty cells the match eventually is Finished.
SomeoneHoldsTheTurn == \E u \in DOMAIN Players : Players[u] = Turn

C40_PlayingMatchCanFinish ==
    /\ [](State = GameStatePlaying => SomeoneHoldsTheTurn)
    /\ [](MoveCount <= Size * Size)
    /\ (State = GameStatePlaying) ~> (State = GameStateFinished)

\* The match is Playing, both players hold O and it is the turn of X: no move
\* will ever be accepted.
C40_NobodyHoldsTheTurn ==
    /\ State = GameStatePlaying
    /\ MapLen(Players) = 2
    /\ ~SomeoneHoldsTheTurn
    /\ MoveCount = 0

=============================================================================
